---- MODULE Spec2Model ----
(***************************************************************************)
(* Model of the order-execution engine (src/src/ib_client.py), the bar     *)
(* history merge (src/src/data_handler.py), the driver loop (src/main.py)  *)
(* and the single-leg operation called by src/test_trade.py with its audit *)
(* sink (src/google_logger.py).                                            *)
(*                                                                         *)
(* Strings that the code slices, searches or rewrites (currency pairs,     *)
(* contract symbols) are sequences of one-character strings.  Prices are   *)
(* integers in units of 0.000001 (one millionth), so that round(x, 5) is a *)
(* real operation: it rounds to a multiple of 10.                          *)
(***************************************************************************)
EXTENDS Integers, Sequences, FiniteSets, TLC

VARIABLES
    \* ---- broker (the IB gateway behind self.ib) ----
    orders,              \* every order the broker received; orderId = index
    positions,           \* pair -> signed position held at the broker
    fills,               \* execution reports, oldest first
    \* ---- IBClient and module globals ----
    tracked_order_ids,   \* module global list (ib_client.py:24)
    tracked_orders,      \* self.tracked_orders (ib_client.py:45)
    active_order_status, \* self.active_order_status (ib_client.py:44)
    signal_file,         \* records of data/order_signal.json
    trade_file_open,     \* records of data/open_position.json
    uuids,               \* uuid4 values handed out so far
    watchdogs,           \* threading.Timer objects of _pre_submitted_watchdog
    kill_switches,       \* threads of fallback_kill_switch
    isConnected,         \* self.ib.isConnected()
    reachable,           \* whether the gateway accepts a connection
    last_connect,        \* how the latest IBClient.connect() went
    unreadable,          \* the files whose content json.load cannot decode
    \* ---- the single-leg operation and its audit trail ----
    tm,                  \* the call of place_option_limit_and_wait_cancel
    sheet,               \* rows of the Google sheet (google_logger.py:14)
    order_log,           \* rows of the local order log
    \* ---- callers of place_bracket_order ----
    pc,                  \* thread -> position in place_bracket_order
    call,                \* thread -> arguments and locals of its call
    nCalls,              \* calls started so far
    side,                \* the action the callers pass
    offsets,             \* <<target_pips, stop_loss_pips>> the callers pass
    market,              \* pair -> price at which market orders execute
    \* ---- DataHandler.update_historical_data ----
    csv_file,            \* rows of data/<symbol>.csv, None when there is no file
    new_data,            \* the bars get_historical_data returned
    df_combined,         \* the merged frame the call returned
    df_recombined,       \* the same bars merged into df_combined once more
    stage,               \* how far the merge has got
    \* ---- the driver loop of main() ----
    data_fetched,        \* whether the symbol is in the list data_fetched
    enabled,             \* config.json: symbols[symbol], the trading flag
    \* ---- the control process (src/app.py) ----
    app,                 \* "stopped" or "running"
    config_json,         \* the content of config.json, key -> symbol -> flag
    response,            \* the last answer to a request, None before any
    \* ---- Trader.place_bracket_order (src/src/trader.py) ----
    trader,              \* the locals of the call under way
    reqIdSeq,            \* the id getReqId() hands out next
    placed,              \* the placeOrder calls the broker received, in order
    executions           \* the executions the session reports, in order

faultVars == <<isConnected, reachable, last_connect, unreadable>>

singleVars == <<tm, sheet, order_log>>

engineVars == <<orders, positions, fills, tracked_order_ids, tracked_orders,
                active_order_status, signal_file, trade_file_open, uuids,
                watchdogs, kill_switches, pc, call, nCalls, side, offsets, market,
                faultVars, singleVars>>

dataVars == <<csv_file, new_data, df_combined, df_recombined, stage,
              data_fetched, enabled>>

controlVars == <<app, config_json, response>>

traderVars == <<trader, reqIdSeq, placed, executions>>

sideVars == <<controlVars, traderVars>>

vars == <<engineVars, dataVars, sideVars>>

\* ------------------------------------------------------------------ bounds
MaxCalls == 2      \* place_bracket_order calls started in one behaviour
MaxTime == 3       \* bar timestamps are 1..MaxTime
MaxStored == 2     \* rows of a stored bar history
MaxBars == 2       \* bars in one answer of the broker
MaxOps == 2        \* single-leg operations started in one behaviour

\* ------------------------------------------------------- program constants
FillTimeout == 30        \* self.fill_timeout
WatchdogTimeout == 15    \* self.watchdog_timeout
FallbackTimeout == 30    \* fallback_kill_switch(..., timeout=30)
PollSleep == 3           \* self.ib.sleep(3) in wait_for_execution
DefaultQuantity == 20000 \* quantity=20000
ClientId == 2            \* config.IB_CLIENT_ID
WaitSeconds == 5         \* wait_seconds=5 in test_trade.py
PositionTimeout == 10    \* wait_for_position(order_id, timeout=10)
PositionSleep == 1       \* time.sleep(1) in wait_for_position

\* worker threads that may run place_bracket_order side by side
Threads == {1, 2}

EURUSD == <<"E", "U", "R", "U", "S", "D">>
USDJPY == <<"U", "S", "D", "J", "P", "Y">>
Symbols == {EURUSD, USDJPY}
Actions == {"BUY", "SELL"}
\* what a behaviour fixes: the action and the <<target_pips, stop_loss_pips>>
\* the callers pass, and the price (in millionths) at which each pair trades
Scenarios ==
    {[side |-> "BUY", offsets |-> <<5, 5>>,
      EURUSD |-> 1100000, USDJPY |-> 150250000],
     [side |-> "SELL", offsets |-> <<5, 5>>,
      EURUSD |-> 1200000, USDJPY |-> 150250004],
     [side |-> "BUY", offsets |-> <<3, 8>>,
      EURUSD |-> 1100003, USDJPY |-> 150250000]}

None == <<>>

\* ----------------------------------------------------------- string helpers
\* Python: sub in s
Contains(s, sub) ==
    \E i \in 1..(Len(s) - Len(sub) + 1) : SubSeq(s, i, i + Len(sub) - 1) = sub

\* Python: s.replace(ch, "") for a one-character ch
RECURSIVE RemoveChar(_, _)
RemoveChar(s, ch) ==
    IF s = <<>> THEN <<>>
    ELSE IF Head(s) = ch THEN RemoveChar(Tail(s), ch)
    ELSE <<Head(s)>> \o RemoveChar(Tail(s), ch)

\* ib_insync Forex(pair): symbol = pair[:3], currency = pair[3:]
Forex(pair) ==
    [symbol |-> SubSeq(pair, 1, 3),
     currency |-> SubSeq(pair, 4, Len(pair)),
     localSymbol |-> None]

\* self.ib.qualifyContracts(contract): the broker fills in localSymbol,
\* which for a currency pair is "EUR.USD"
QualifyContracts(c) ==
    [c EXCEPT !.localSymbol = c.symbol \o <<".">> \o c.currency]

\* ---------------------------------------------------------------- pricing
\* pip_size = 0.01 if 'JPY' in symbol else 0.0001   (in millionths)
PipSize(symbol) ==
    IF Contains(symbol, <<"J", "P", "Y">>) THEN 10000 ELSE 100

\* Python round(x, 5) on a price in millionths: the nearest multiple of 10,
\* a tie going to the even fifth decimal
Round5(x) ==
    LET q == x \div 10
        r == x % 10
    IN  IF r < 5 THEN q * 10
        ELSE IF r > 5 THEN (q + 1) * 10
        ELSE IF q % 2 = 0 THEN q * 10 ELSE (q + 1) * 10

\* variant: the take-profit is put above the entry for a SELL as well
TpPriceAbove(entry_price, target_pips, pip_size, is_buy) ==
    Round5(entry_price + target_pips * pip_size)

\* ib_client.py:282
TpPrice(entry_price, target_pips, pip_size, is_buy) ==
    IF is_buy THEN Round5(entry_price + target_pips * pip_size)
    ELSE Round5(entry_price - target_pips * pip_size)

\* ib_client.py:283
SlPrice(entry_price, stop_loss_pips, pip_size, is_buy) ==
    IF is_buy THEN Round5(entry_price - stop_loss_pips * pip_size)
    ELSE Round5(entry_price + stop_loss_pips * pip_size)

\* 'SELL' if is_buy else 'BUY'
Opposite(is_buy) == IF is_buy THEN "SELL" ELSE "BUY"

\* oca_group = f"OCA_{str(uuid.uuid4())[:8]}": a uuid is <<first 8 hex
\* digits, the rest>>; the group name keeps the first part only
OcaGroup(uuid) == <<"OCA_", uuid[1]>>

\* uuid.uuid4(): a value never handed out before (the second part differs
\* from that of every earlier uuid) with any first 8 hex digits; which digits
\* the very first uuid has makes no difference, so it has the first ones
UuidPrefixes == {"a1b2c3d4", "0f9e8d7c"}
Uuid4Values ==
    {<<prefix, Cardinality(uuids) + 1>> :
        prefix \in IF uuids = {} THEN {"a1b2c3d4"} ELSE UuidPrefixes}

\* ----------------------------------------------------------------- broker
OpenStatuses == {"Submitted", "PreSubmitted", "PendingSubmit", "PendingCancel"}

\* self.ib.positions(): one Position per pair the account has traded,
\* zero positions included
IbPositions ==
    {[account |-> "DU1", contract |-> QualifyContracts(Forex(s)),
      position |-> positions[s], avgCost |-> 0] : s \in Symbols}

\* self.ib.reqOpenOrders(): the trades the broker still lists
ReqOpenOrders == {i \in 1..Len(orders) : orders[i].status \in OpenStatuses}

\* self.ib.placeOrder(contract, order): the order gets the next order id
PlaceOrder(book, contract, order) ==
    Append(book, [order EXCEPT !.orderId = Len(book) + 1,
                               !.contract = contract,
                               !.status = "PendingSubmit"])

\* Order(...) with the fields the code sets
Order(action, orderType, totalQuantity, price, ocaGroup, callNo) ==
    [orderId |-> 0, contract |-> None, action |-> action,
     orderType |-> orderType, totalQuantity |-> totalQuantity,
     price |-> price, ocaGroup |-> ocaGroup, status |-> "",
     callNo |-> callNo]

\* ------------------------------------------------- IBClient.get_open_positions
\* variant: the position filter reads contract.symbol, as the order filter does
ContractSymbolOnly(contract) == RemoveChar(contract.symbol, ".")

\* ib_client.py:132-133
ContractSymbol(contract) ==
    RemoveChar(IF contract.localSymbol # None THEN contract.localSymbol
               ELSE contract.symbol, ".")

\* ib_client.py:128-146
MatchingPositions(symbol) ==
    {pos \in IbPositions :
        /\ ContractSymbol(pos.contract) # None
        /\ ContractSymbol(pos.contract) = symbol
        /\ pos.position # 0}

\* ib_client.py:157-158
OrderMatches(symbol, i) ==
    /\ orders[i].status \in OpenStatuses
    /\ (symbol = None \/ orders[i].contract.symbol = symbol)

\* ib_client.py:149-167
MatchingOrders(symbol) == {i \in ReqOpenOrders : OrderMatches(symbol, i)}

\* ib_client.py:118-172
GetOpenPositions(symbol) ==
    [openPositions |-> MatchingPositions(symbol),
     openOrders |-> MatchingOrders(symbol)]

\* ------------------------------------------------ IBClient.place_bracket_order
IdleCall ==
    [callNo |-> 0, symbol |-> None, action |-> "", quantity |-> 0,
     target_pips |-> 0, stop_loss_pips |-> 0, contract |-> None,
     open_positions |-> None, trades |-> {}, entry_order_id |-> 0,
     elapsed |-> 0, execution |-> None, result |-> ""]

\* the call returns: its locals are gone, the thread is free for its next
\* call; which call it was, for which symbol, and how it ended are kept
Ended(c, result) ==
    [IdleCall EXCEPT !.callNo = c.callNo, !.symbol = c.symbol,
                     !.result = result]

Return(p, result) ==
    /\ pc' = [pc EXCEPT ![p] = "idle"]
    /\ call' = [call EXCEPT ![p] = Ended(call[p], result)]

\* ib_client.py:49-52: IBClient.connect(), one call of self.ib.connect; what
\* the library raises when the gateway does not answer goes to the caller
Connect(gateway_up) ==
    [attempts |-> 1,
     raised |-> IF gateway_up THEN "" ELSE "ConnectionRefusedError"]

\* how the session stands for a call.  With the session up the call goes
\* through.  With the session down either qualifyContracts (line 199) raises
\* ConnectionError, or the call gets as far as line 123 (the session went
\* down after line 199, or the library let the request pass) and
\* get_open_positions calls connect().
SessionOutcomes ==
    IF isConnected THEN {"connected"}
    ELSE {"ConnectionError"} \cup
         (IF Connect(reachable).raised = "" THEN {"reconnected"}
          ELSE {Connect(reachable).raised})

\* variant: get_open_positions swallows what connect() raises and returns
\* the empty snapshot
QuerySwallows(session, exposed) ==
    IF session = "ConnectionError" THEN session
    ELSE IF session \in {"connected", "reconnected"} /\ exposed THEN "exposed"
    ELSE "clear"

\* ib_client.py:199-206 with 122-126 and 174-176: what place_bracket_order
\* has after the exposure query.  An exception of qualifyContracts or of
\* get_open_positions (logged and raised again) ends the call; a position
\* or a pending order ends it too; otherwise the way is clear.
QueryResult(session, exposed) ==
    IF session \notin {"connected", "reconnected"} THEN session
    ELSE IF exposed THEN "exposed" ELSE "clear"

\* ib_client.py:197-206: build and qualify the contract, query the exposure
\* (reconnecting when the session is down), return when a position or a
\* pending order is found
ExposureCheck(p, symbol, action) ==
    /\ pc[p] = "idle"
    /\ \A q \in Threads : q < p => pc[q] # "idle"
    /\ nCalls < MaxCalls
    /\ nCalls' = nCalls + 1
    /\ \E session \in SessionOutcomes :
        LET snapshot == GetOpenPositions(symbol)
            exposed == \/ Cardinality(snapshot.openPositions) > 0
                       \/ Cardinality(snapshot.openOrders) > 0
            c == [IdleCall EXCEPT
                     !.callNo = nCalls + 1, !.symbol = symbol,
                     !.action = action, !.quantity = DefaultQuantity,
                     !.target_pips = offsets[1],
                     !.stop_loss_pips = offsets[2],
                     !.contract = QualifyContracts(Forex(symbol)),
                     !.open_positions = snapshot,
                     !.trades = ReqOpenOrders]
            up == session \in {"connected", "reconnected"}
            result == QueryResult(session, exposed)
        IN  /\ call' = [call EXCEPT ![p] =
                         IF result = "clear" THEN c ELSE Ended(c, result)]
            /\ pc' = [pc EXCEPT ![p] =
                         IF result = "clear" THEN "submit" ELSE "idle"]
            /\ isConnected' = up
            /\ last_connect' = IF session \in {"connected", "ConnectionError"}
                               THEN last_connect ELSE Connect(reachable)
    /\ UNCHANGED <<orders, positions, fills, tracked_order_ids, tracked_orders,
                   active_order_status, signal_file, trade_file_open, uuids,
                   watchdogs, kill_switches, side, offsets, market,
                   dataVars, sideVars, singleVars, reachable, unreadable>>

\* ib_client.py:208-219: the market entry order
SubmitEntry(p) ==
    /\ pc[p] = "submit"
    /\ isConnected
    /\ orders' = PlaceOrder(orders, call[p].contract,
                            Order(call[p].action, "MKT", call[p].quantity,
                                  0, None, call[p].callNo))
    /\ call' = [call EXCEPT ![p].entry_order_id = Len(orders) + 1,
                            ![p].elapsed = 0]
    /\ pc' = [pc EXCEPT ![p] = "wait"]
    /\ UNCHANGED <<positions, fills, tracked_order_ids, tracked_orders,
                   active_order_status, signal_file, trade_file_open, uuids,
                   watchdogs, kill_switches, nCalls, side, offsets, market,
                   dataVars, sideVars, singleVars, faultVars>>

\* ib_client.py:217: placeOrder on a session that is down raises
\* ConnectionError; nothing in place_bracket_order catches it
SubmitEntryRaises(p) ==
    /\ pc[p] = "submit"
    /\ ~isConnected
    /\ Return(p, "ConnectionError")
    /\ UNCHANGED <<orders, positions, fills, tracked_order_ids, tracked_orders,
                   active_order_status, signal_file, trade_file_open, uuids,
                   watchdogs, kill_switches, nCalls, side, offsets, market,
                   dataVars, sideVars, singleVars, faultVars>>

\* ib_client.py:96-100: the first fill whose execution carries the order id
MatchingFills(order_id) ==
    {i \in 1..Len(fills) : fills[i].orderId = order_id}

FirstMatchingFill(order_id) ==
    fills[CHOOSE i \in MatchingFills(order_id) :
            \A j \in MatchingFills(order_id) : i <= j]

\* variant: the loop never sees the clock move
WaitPollNoClock(p) ==
    /\ pc[p] = "wait"
    /\ call[p].elapsed < FillTimeout
    /\ IF MatchingFills(call[p].entry_order_id) # {}
       THEN /\ call' = [call EXCEPT ![p].execution =
                            FirstMatchingFill(call[p].entry_order_id)]
            /\ pc' = [pc EXCEPT ![p] = "filled"]
       ELSE /\ call' = call
            /\ pc' = pc
    /\ UNCHANGED <<orders, positions, fills, tracked_order_ids, tracked_orders,
                   active_order_status, signal_file, trade_file_open, uuids,
                   watchdogs, kill_switches, nCalls, side, offsets, market,
                   dataVars, sideVars, singleVars, faultVars>>

\* ib_client.py:92-101: one turn of the polling loop of wait_for_execution
WaitPoll(p) ==
    /\ pc[p] = "wait"
    /\ call[p].elapsed < FillTimeout
    /\ IF MatchingFills(call[p].entry_order_id) # {}
       THEN /\ call' = [call EXCEPT ![p].execution =
                            FirstMatchingFill(call[p].entry_order_id)]
            /\ pc' = [pc EXCEPT ![p] = "filled"]
       ELSE /\ call' = [call EXCEPT ![p].elapsed = @ + PollSleep]
            /\ pc' = pc
    /\ UNCHANGED <<orders, positions, fills, tracked_order_ids, tracked_orders,
                   active_order_status, signal_file, trade_file_open, uuids,
                   watchdogs, kill_switches, nCalls, side, offsets, market,
                   dataVars, sideVars, singleVars, faultVars>>

\* variant: the entry order id is tracked although the entry never filled
WaitTimeoutTracked(p) ==
    /\ pc[p] = "wait"
    /\ call[p].elapsed >= FillTimeout
    /\ Return(p, "timeout")
    /\ tracked_order_ids' = Append(tracked_order_ids, call[p].entry_order_id)
    /\ UNCHANGED <<orders, positions, fills, tracked_orders,
                   active_order_status, signal_file, trade_file_open, uuids,
                   watchdogs, kill_switches, nCalls, side, offsets, market,
                   dataVars, sideVars, singleVars, faultVars>>

\* ib_client.py:103 and 223-225: TimeoutError, logged, the call returns
WaitTimeout(p) ==
    /\ pc[p] = "wait"
    /\ call[p].elapsed >= FillTimeout
    /\ Return(p, "timeout")
    /\ UNCHANGED <<orders, positions, fills, tracked_order_ids, tracked_orders,
                   active_order_status, signal_file, trade_file_open, uuids,
                   watchdogs, kill_switches, nCalls, side, offsets, market,
                   dataVars, sideVars, singleVars, faultVars>>

\* ib_client.py:237-243
SignalRecord(c) ==
    [symbol |-> c.symbol, datetime |-> c.execution.time,
     direction |-> c.action, price |-> c.execution.price]

\* ib_client.py:244-253
OpenOrderRecord(c) ==
    [entryDateTime |-> c.execution.time, symbolName |-> c.symbol,
     orderId |-> c.execution.orderId, qty |-> c.quantity,
     entryPrice |-> c.execution.price]

\* ib_client.py:287-295
SlOrder(c, oca_group) ==
    Order(Opposite(c.action = "BUY"), "STP", c.execution.shares,
          SlPrice(c.execution.price, c.stop_loss_pips, PipSize(c.symbol),
                  c.action = "BUY"),
          oca_group, c.callNo)

\* variant: the take-profit leg is left out of the OCA group
TpOrderUngrouped(c, oca_group) ==
    Order(Opposite(c.action = "BUY"), "LMT", c.execution.shares,
          TpPrice(c.execution.price, c.target_pips, PipSize(c.symbol),
                  c.action = "BUY"),
          None, c.callNo)

\* ib_client.py:297-305
TpOrder(c, oca_group) ==
    Order(Opposite(c.action = "BUY"), "LMT", c.execution.shares,
          TpPrice(c.execution.price, c.target_pips, PipSize(c.symbol),
                  c.action = "BUY"),
          oca_group, c.callNo)

\* Deferred tasks run in the order of their deadlines.  A pending task is
\* <<timeout, armed>>: armed counts the tasks started before it, three to a
\* call.
Pending ==
    {<<w.timeout, w.armed>> : w \in {x \in watchdogs : ~x.fired}} \cup
    {<<k.timeout, k.armed>> : k \in {x \in kill_switches : x.state = "sleeping"}}

Armed == Cardinality(watchdogs) + Cardinality(kill_switches)

\* t is certainly due before a task <<timeout, armed>>: it was started earlier
\* with the same delay, or by the same call with a shorter delay
DueBefore(t, timeout, armed) ==
    \/ t[1] = timeout /\ t[2] < armed
    \/ t[1] < timeout /\ (t[2] - 1) \div 3 = (armed - 1) \div 3

TimerDue(armed, timeout) ==
    \A t \in Pending : ~DueBefore(t, timeout, armed)

\* variant: the check has run by the time the caller gets control back
WatchdogBlocking(order_id, timeout, armed) ==
    [order_id |-> order_id, timeout |-> timeout, armed |-> armed,
     fired |-> TRUE, warned |-> FALSE]

\* ib_client.py:82-87: threading.Timer(timeout, check).start()
Watchdog(order_id, timeout, armed) ==
    [order_id |-> order_id, timeout |-> timeout, armed |-> armed,
     fired |-> FALSE, warned |-> FALSE]

\* ib_client.py:180-195: threading.Thread(target=task).start()
KillSwitch(c, tp_id, sl_id, timeout, armed) ==
    [contract |-> c.contract, action |-> c.action,
     quantity |-> c.execution.shares, tp |-> tp_id, sl |-> sl_id,
     timeout |-> timeout, armed |-> armed, state |-> "sleeping"]

\* variant: the file is written anew without loading what it holds
LoadNothing(file, name) == <<>>

\* ib_client.py:255-262 and 265-272: the records of a file; a file that is
\* missing, or whose content does not decode (JSONDecodeError), gives []
LoadRecords(file, name) == IF name \in unreadable THEN <<>> ELSE file

\* ib_client.py:227-321, the entry has filled: the two records are appended
\* to their files, both legs are placed, tracked, and the timers armed
PlaceLegs(p) ==
    /\ pc[p] = "filled"
    /\ isConnected
    /\ signal_file' = Append(LoadRecords(signal_file, "signal_file"),
                             SignalRecord(call[p]))
    /\ trade_file_open' = Append(LoadRecords(trade_file_open, "trade_file_open"),
                                 OpenOrderRecord(call[p]))
    /\ unreadable' = {}
    /\ \E u \in Uuid4Values :
        LET c == call[p]
            oca_group == OcaGroup(u)
            sl_id == Len(orders) + 1
            tp_id == Len(orders) + 2
            book == PlaceOrder(orders, c.contract, SlOrder(c, oca_group))
        IN  /\ uuids' = uuids \cup {u}
            /\ orders' = PlaceOrder(book, c.contract, TpOrder(c, oca_group))
            /\ tracked_order_ids' =
                   tracked_order_ids \o <<c.entry_order_id, tp_id, sl_id>>
            /\ tracked_orders' = tracked_orders \cup {sl_id, tp_id}
            /\ watchdogs' = watchdogs \cup
                   {Watchdog(sl_id, WatchdogTimeout, Armed + 1),
                    Watchdog(tp_id, WatchdogTimeout, Armed + 2)}
            /\ kill_switches' = kill_switches \cup
                   {KillSwitch(c, tp_id, sl_id, FallbackTimeout, Armed + 3)}
    /\ Return(p, "placed")
    /\ UNCHANGED <<positions, fills, active_order_status, nCalls, side, offsets, market,
                   dataVars, sideVars, singleVars, isConnected, reachable,
                   last_connect>>

\* ib_client.py:227-309, the entry has filled and a placeOrder of a leg
\* raises ConnectionError: the two records are written, and then either the
\* session is down and the stop-loss order is not sent (line 308), or the
\* session drops once the stop-loss order is out and the take-profit order
\* is not sent (line 309).  Nothing is tracked, no timer is armed.
PlaceLegsRaises(p) ==
    /\ pc[p] = "filled"
    /\ signal_file' = Append(LoadRecords(signal_file, "signal_file"),
                             SignalRecord(call[p]))
    /\ trade_file_open' = Append(LoadRecords(trade_file_open, "trade_file_open"),
                                 OpenOrderRecord(call[p]))
    /\ unreadable' = {}
    /\ \E u \in Uuid4Values :
        /\ uuids' = uuids \cup {u}
        /\ IF isConnected
           THEN /\ orders' = PlaceOrder(orders, call[p].contract,
                                        SlOrder(call[p], OcaGroup(u)))
                /\ isConnected' = FALSE
                /\ reachable' \in BOOLEAN
           ELSE /\ orders' = orders
                /\ isConnected' = FALSE
                /\ reachable' = reachable
    /\ Return(p, "ConnectionError")
    /\ UNCHANGED <<positions, fills, tracked_order_ids, tracked_orders,
                   active_order_status, watchdogs, kill_switches,
                   nCalls, side, offsets, market,
                   dataVars, sideVars, singleVars, last_connect>>

\* where an open() or json.dump of ib_client.py:255-280 may raise OSError
\* (missing folder, no permission, full disk)
AuditFailures ==
    {"open", "dump signal_file", "open trade_file_open", "dump trade_file_open"}

\* ib_client.py:227-280, the entry has filled and a file operation raises:
\* nothing in place_bracket_order catches it, the call ends there.  A dump
\* that fails half way leaves a file json.load cannot decode; the signal file
\* is written before the open-position file is opened for writing.
PersistRaises(p) ==
    /\ pc[p] = "filled"
    /\ \E at \in AuditFailures :
        /\ signal_file' =
              IF at = "open" THEN signal_file
              ELSE IF at = "dump signal_file" THEN <<>>
              ELSE Append(LoadRecords(signal_file, "signal_file"),
                          SignalRecord(call[p]))
        /\ trade_file_open' =
              IF at = "dump trade_file_open" THEN <<>> ELSE trade_file_open
        /\ unreadable' =
              IF at = "open" THEN unreadable
              ELSE IF at = "dump signal_file"
                   THEN unreadable \cup {"signal_file"}
              ELSE IF at = "open trade_file_open"
                   THEN unreadable \ {"signal_file"}
              ELSE (unreadable \ {"signal_file"}) \cup {"trade_file_open"}
    /\ Return(p, "OSError")
    /\ UNCHANGED <<orders, positions, fills, tracked_order_ids, tracked_orders,
                   active_order_status, uuids, watchdogs, kill_switches,
                   nCalls, side, offsets, market,
                   dataVars, sideVars, singleVars, isConnected, reachable,
                   last_connect>>

\* ------------------------------------------------------------ deferred tasks
\* ib_client.py:83-86: check() of _pre_submitted_watchdog, run by the timer
WatchdogCheck(w) ==
    /\ w \in watchdogs
    /\ ~w.fired
    /\ TimerDue(w.armed, w.timeout)
    /\ LET status == IF w.order_id \in DOMAIN active_order_status
                     THEN active_order_status[w.order_id] ELSE "None"
       IN  watchdogs' = (watchdogs \ {w}) \cup
               {[w EXCEPT !.fired = TRUE,
                          !.warned = (status = "PreSubmitted")]}
    /\ UNCHANGED <<orders, positions, fills, tracked_order_ids, tracked_orders,
                   active_order_status, signal_file, trade_file_open, uuids,
                   kill_switches, pc, call, nCalls, side, offsets, market,
                   dataVars, sideVars, singleVars, faultVars>>

\* ib_client.py:181-193: task() of fallback_kill_switch; after the sleep
\* every statement of the task is commented out
KillSwitchTask(k) ==
    /\ k \in kill_switches
    /\ k.state = "sleeping"
    /\ TimerDue(k.armed, k.timeout)
    /\ kill_switches' = (kill_switches \ {k}) \cup {[k EXCEPT !.state = "done"]}
    /\ UNCHANGED <<orders, positions, fills, tracked_order_ids, tracked_orders,
                   active_order_status, signal_file, trade_file_open, uuids,
                   watchdogs, pc, call, nCalls, side, offsets, market,
                   dataVars, sideVars, singleVars, faultVars>>

\* ------------------------------------------------------------ broker steps
Signed(action, qty) == IF action = "BUY" THEN qty ELSE 0 - qty

PairOf(contract) == contract.symbol \o contract.currency

\* the broker acknowledges what it has received: every limit or stop order
\* still PendingSubmit is held as PreSubmitted (a market order stays pending
\* until it executes)
Held(o) == o.status = "PendingSubmit" /\ o.orderType # "MKT"

BrokerAck ==
    /\ \E i \in 1..Len(orders) : Held(orders[i])
    /\ orders' = [i \in 1..Len(orders) |->
                     IF Held(orders[i])
                     THEN [orders[i] EXCEPT !.status = "PreSubmitted"]
                     ELSE orders[i]]
    /\ UNCHANGED <<positions, fills, tracked_order_ids, tracked_orders,
                   active_order_status, signal_file, trade_file_open, uuids,
                   watchdogs, kill_switches, pc, call, nCalls, side, offsets, market,
                   dataVars, sideVars, singleVars, faultVars>>

\* the price of an execution: the market for a market order, the order's own
\* price for a limit or stop leg
ExecutionPrices(o) ==
    IF o.orderType = "MKT" THEN {market[PairOf(o.contract)]} ELSE {o.price}

\* the quantity of an order executed so far, over its execution reports
RECURSIVE SharesIn(_, _)
SharesIn(reports, order_id) ==
    IF reports = <<>> THEN 0
    ELSE (IF Head(reports).orderId = order_id THEN Head(reports).shares ELSE 0)
         + SharesIn(Tail(reports), order_id)

FilledQuantity(order_id) == SharesIn(fills, order_id)

\* the broker executes a first part of a market order, half of it: an
\* execution report for that part, the position moves by it, the order
\* stays open for the rest
BrokerFillPartly(i) ==
    /\ i \in 1..Len(orders)
    /\ orders[i].orderType = "MKT"
    /\ orders[i].status \in {"PendingSubmit", "Submitted"}
    /\ FilledQuantity(orders[i].orderId) = 0
    /\ LET o == orders[i]
           part == o.totalQuantity \div 2
       IN  /\ fills' = Append(fills, [orderId |-> o.orderId,
                                      price |-> market[PairOf(o.contract)],
                                      shares |-> part,
                                      time |-> Len(fills) + 1])
           /\ positions' = [positions EXCEPT ![PairOf(o.contract)] =
                                @ + Signed(o.action, part)]
           /\ orders' = [orders EXCEPT ![i].status = "Submitted"]
    /\ UNCHANGED <<tracked_order_ids, tracked_orders, active_order_status,
                   signal_file, trade_file_open, uuids, watchdogs,
                   kill_switches, pc, call, nCalls, side, offsets, market,
                   dataVars, sideVars, singleVars, faultVars>>

\* the broker executes what is left of an order (all of it when no part was
\* executed before): an execution report, the position moves, and the open
\* orders of the same OCA group are cancelled
BrokerFill(i) ==
    /\ i \in 1..Len(orders)
    /\ orders[i].status \in {"PendingSubmit", "Submitted", "PreSubmitted"}
    /\ \E price \in ExecutionPrices(orders[i]) :
        LET o == orders[i]
            rest == o.totalQuantity - FilledQuantity(o.orderId)
        IN  /\ fills' = Append(fills, [orderId |-> o.orderId, price |-> price,
                                       shares |-> rest,
                                       time |-> Len(fills) + 1])
            /\ positions' = [positions EXCEPT ![PairOf(o.contract)] =
                                 @ + Signed(o.action, rest)]
            /\ orders' = [j \in 1..Len(orders) |->
                  IF j = i THEN [o EXCEPT !.status = "Filled"]
                  ELSE IF /\ o.ocaGroup # None
                          /\ orders[j].ocaGroup = o.ocaGroup
                          /\ orders[j].status \in OpenStatuses
                       THEN [orders[j] EXCEPT !.status = "Cancelled"]
                       ELSE orders[j]]
    /\ UNCHANGED <<tracked_order_ids, tracked_orders, active_order_status,
                   signal_file, trade_file_open, uuids, watchdogs,
                   kill_switches, pc, call, nCalls, side, offsets, market,
                   dataVars, sideVars, singleVars, faultVars>>

\* ======================================================================
\* The single-leg operation: TradeManager.place_option_limit_and_wait_cancel
\* (called by src/test_trade.py:53-61; the audit sink is src/google_logger.py)
\* ======================================================================
\* variant: the row is built and printed but never appended
LogOrderNoAppend(rows, ticker, expiry, strike, premium, orderStatus, clientId, permId, reasonCancelled) ==
    rows

\* google_logger.py:16-21: one row is appended to the sheet; the timestamp
\* is later than that of every row already there
LogOrder(rows, ticker, expiry, strike, premium, orderStatus, clientId, permId, reasonCancelled) ==
    Append(rows, [timestamp |-> Len(rows) + 1, ticker |-> ticker,
                  expiry |-> expiry, strike |-> strike, premium |-> premium,
                  orderStatus |-> orderStatus, clientId |-> clientId,
                  permId |-> permId, reasonCancelled |-> reasonCancelled])

\* test_trade.py:20-27: the option the operation is called for
OptionContract(ticker, expiry, strike, right) ==
    [symbol |-> ticker, lastTradeDateOrContractMonth |-> expiry,
     strike |-> strike, right |-> right, exchange |-> "SMART",
     currency |-> "USD"]

IdleOp ==
    [pc |-> "idle", opNo |-> 0, contract |-> None, quantity |-> 0,
     limit_price |-> 0, wait_seconds |-> 0, order_id |-> 0, waited |-> 0,
     result |-> ""]

\* the audit row of an outcome goes to the local log and to the sheet
Audit(op, orderStatus, permId, reasonCancelled) ==
    /\ sheet' = LogOrder(sheet, op.contract.symbol,
                         op.contract.lastTradeDateOrContractMonth,
                         op.contract.strike, op.limit_price, orderStatus,
                         ClientId, permId, reasonCancelled)
    /\ order_log' = LogOrder(order_log, op.contract.symbol,
                             op.contract.lastTradeDateOrContractMonth,
                             op.contract.strike, op.limit_price, orderStatus,
                             ClientId, permId, reasonCancelled)

\* the operation starts: the instrument is resolved and one limit order is
\* submitted; an instrument that does not resolve ends the operation with
\* its audit row
PlaceOptionLimit(action, quantity, wait_seconds, resolved) ==
    /\ tm.pc = "idle"
    /\ tm.opNo < MaxOps
    /\ LET op == [IdleOp EXCEPT
                    !.opNo = tm.opNo + 1,
                    !.contract = OptionContract("AAPL", "20250926", 230, "P"),
                    !.quantity = quantity, !.limit_price = 500,
                    !.wait_seconds = wait_seconds]
       IN  IF resolved
           THEN /\ orders' = PlaceOrder(orders, op.contract,
                                 Order(action, "LMT", quantity, op.limit_price,
                                       None, op.opNo))
                /\ tm' = [op EXCEPT !.pc = "waiting",
                                    !.order_id = Len(orders) + 1]
                /\ UNCHANGED <<sheet, order_log>>
           ELSE /\ Audit(op, "Error", 0, "ResolutionError")
                /\ tm' = [op EXCEPT !.result = "Error"]
                /\ UNCHANGED orders
    /\ UNCHANGED <<positions, fills, tracked_order_ids, tracked_orders,
                   active_order_status, signal_file, trade_file_open, uuids,
                   watchdogs, kill_switches, pc, call, nCalls, side, offsets,
                   market, dataVars, sideVars, faultVars>>

\* one poll of the order status: a filled order ends the operation,
\* otherwise another second has gone by
PollStatus ==
    /\ tm.pc = "waiting"
    /\ tm.waited < tm.wait_seconds
    /\ IF orders[tm.order_id].status = "Filled"
       THEN /\ Audit(tm, "Filled", tm.order_id, "")
            /\ tm' = [tm EXCEPT !.pc = "idle", !.result = "Filled"]
       ELSE /\ tm' = [tm EXCEPT !.waited = @ + 1]
            /\ UNCHANGED <<sheet, order_log>>
    /\ UNCHANGED <<orders, positions, fills, tracked_order_ids, tracked_orders,
                   active_order_status, signal_file, trade_file_open, uuids,
                   watchdogs, kill_switches, pc, call, nCalls, side, offsets,
                   market, dataVars, sideVars, faultVars>>

\* wait_seconds are over: an order still unfilled is cancelled
WaitOver ==
    /\ tm.pc = "waiting"
    /\ tm.waited >= tm.wait_seconds
    /\ IF orders[tm.order_id].status = "Filled"
       THEN /\ Audit(tm, "Filled", tm.order_id, "")
            /\ tm' = [tm EXCEPT !.pc = "idle", !.result = "Filled"]
            /\ UNCHANGED orders
       ELSE /\ orders' = [orders EXCEPT ![tm.order_id].status = "Cancelled"]
            /\ Audit(tm, "Cancelled", tm.order_id, "not filled in time")
            /\ tm' = [tm EXCEPT !.pc = "idle", !.result = "Cancelled"]
    /\ UNCHANGED <<positions, fills, tracked_order_ids, tracked_orders,
                   active_order_status, signal_file, trade_file_open, uuids,
                   watchdogs, kill_switches, pc, call, nCalls, side, offsets,
                   market, dataVars, sideVars, faultVars>>

\* the broker executes the limit order
LimitFilled ==
    /\ tm.pc = "waiting"
    /\ orders[tm.order_id].status \in OpenStatuses
    /\ orders' = [orders EXCEPT ![tm.order_id].status = "Filled"]
    /\ UNCHANGED <<positions, fills, tracked_order_ids, tracked_orders,
                   active_order_status, signal_file, trade_file_open, uuids,
                   watchdogs, kill_switches, pc, call, nCalls, side, offsets,
                   market, dataVars, sideVars, faultVars, singleVars>>

\* ======================================================================
\* The control process (src/app.py): config.json and the requests on it
\* ======================================================================
\* config.py:6
FOREX_SYMBOLS == {"APPLE"}

\* the symbols a request may name: the configured one and two that are not
RequestSymbols == FOREX_SYMBOLS \cup {"TSLA", "EURUSD"}

\* d[k] = v on a dict
Put(d, k, v) == [x \in DOMAIN d \cup {k} |-> IF x = k THEN v ELSE d[x]]

\* variant: the start-up file switches every configured symbol on
ResetConfigEnabled(symbols) == [k \in {"symbols"} |-> [s \in symbols |-> TRUE]]

\* app.py:137-145: the dict reset_config() writes, one key and no other
ResetConfig(symbols) == [k \in {"symbols"} |-> [s \in symbols |-> FALSE]]

NoResponse == [route |-> "", symbol |-> "", code |-> 0]

Answer(route, symbol, code) == [route |-> route, symbol |-> symbol, code |-> code]

\* app.py:148: the module is imported, reset_config() runs before any request
StartApp ==
    /\ app = "stopped"
    /\ app' = "running"
    /\ config_json' = ResetConfig(FOREX_SYMBOLS)
    /\ response' = NoResponse
    /\ UNCHANGED <<engineVars, dataVars, traderVars>>

\* the process ends; config.json stays as the last request left it
StopApp ==
    /\ app = "running"
    /\ app' = "stopped"
    /\ UNCHANGED <<engineVars, dataVars, traderVars, config_json, response>>

\* app.py:16-32.  config_data['symbolsStatus'] on a dict without that key
\* raises KeyError at line 23, before save_config: the request is answered
\* with status 500 and the file keeps what it held.
AddSymbol(symbol) ==
    /\ app = "running"
    /\ LET config_data == config_json
           symbols == config_data["symbols"]
       IN  IF symbol \notin DOMAIN symbols
           THEN IF "symbolsStatus" \in DOMAIN config_data
                THEN /\ config_json' =
                          Put(Put(config_data, "symbols",
                                  Put(symbols, symbol, TRUE)),
                              "symbolsStatus",
                              Put(config_data["symbolsStatus"], symbol, FALSE))
                     /\ response' = Answer("/add_symbol", symbol, 200)
                ELSE /\ config_json' = config_json
                     /\ response' = Answer("/add_symbol", symbol, 500)
           ELSE IF ~symbols[symbol]
                THEN /\ config_json' = Put(config_data, "symbols",
                                           Put(symbols, symbol, TRUE))
                     /\ response' = Answer("/add_symbol", symbol, 200)
                ELSE /\ config_json' = config_json
                     /\ response' = Answer("/add_symbol", symbol, 400)
    /\ UNCHANGED <<engineVars, dataVars, traderVars, app>>

\* app.py:51-59
StopTrading(symbol) ==
    /\ app = "running"
    /\ LET config_data == config_json
           symbols == config_data["symbols"]
       IN  IF symbol \in DOMAIN symbols
           THEN /\ config_json' = Put(config_data, "symbols",
                                      Put(symbols, symbol, FALSE))
                /\ response' = Answer("/stop_trading", symbol, 200)
           ELSE /\ config_json' = config_json
                /\ response' = Answer("/stop_trading", symbol, 404)
    /\ UNCHANGED <<engineVars, dataVars, traderVars, app>>

\* the control process is not running; the file is as a start would write it
ControlIdle ==
    /\ app = "stopped"
    /\ config_json = ResetConfig(FOREX_SYMBOLS)
    /\ response = NoResponse

\* ======================================================================
\* Trader.place_bracket_order (src/src/trader.py), against a session that
\* offers getReqId(), placeOrder() and executions()
\* ======================================================================
IdleTrade ==
    [pc |-> "idle", callNo |-> 0, action |-> "", parent_order_id |-> 0,
     take_profit_order_id |-> 0, stop_order_id |-> 0, elapsed |-> 0,
     result |-> ""]

\* trader.py:19-20: getReqId() returns the next id and moves on by one
GetReqId(seq) == [id |-> seq, next |-> seq + 1]

\* one placeOrder call as the broker receives it; observed tells whether the
\* call had seen the execution of its entry when it placed the order
Placement(orderId, action, orderType, callNo, observed) ==
    [orderId |-> orderId, action |-> action, orderType |-> orderType,
     callNo |-> callNo, observed |-> observed]

\* trader.py:34-77: the ids, the three orders, and the three placeOrder calls
TraderPlace(action) ==
    /\ trader.pc = "idle"
    /\ trader.callNo < MaxCalls
    /\ LET req == GetReqId(reqIdSeq)
           parent_order_id == req.id
           take_profit_order_id == parent_order_id + 1
           stop_order_id == parent_order_id + 2
           callNo == trader.callNo + 1
           closing == Opposite(action = "BUY")
       IN  /\ reqIdSeq' = req.next
           /\ placed' = placed \o
                 <<Placement(parent_order_id, action, "MKT", callNo, FALSE),
                   Placement(stop_order_id, closing, "STP", callNo, FALSE),
                   Placement(take_profit_order_id, closing, "LMT", callNo,
                             FALSE)>>
           /\ trader' = [IdleTrade EXCEPT
                 !.pc = "wait", !.callNo = callNo, !.action = action,
                 !.parent_order_id = parent_order_id,
                 !.take_profit_order_id = take_profit_order_id,
                 !.stop_order_id = stop_order_id]
    /\ UNCHANGED <<engineVars, dataVars, controlVars, executions>>

\* trader.py:25-28: the executions that carry the order id
ExecutionsOf(order_id) ==
    {i \in 1..Len(executions) : executions[i].orderId = order_id}

\* trader.py:24-30 and 82-107: one turn of the loop of wait_for_position;
\* when the execution is there the two legs are placed once more with the
\* prices taken from it
TraderPoll ==
    /\ trader.pc = "wait"
    /\ trader.elapsed < PositionTimeout
    /\ IF ExecutionsOf(trader.parent_order_id) # {}
       THEN /\ placed' = placed \o
                 <<Placement(trader.take_profit_order_id,
                             Opposite(trader.action = "BUY"), "LMT",
                             trader.callNo, TRUE),
                   Placement(trader.stop_order_id,
                             Opposite(trader.action = "BUY"), "STP",
                             trader.callNo, TRUE)>>
            /\ trader' = [trader EXCEPT !.pc = "idle", !.result = "placed"]
       ELSE /\ placed' = placed
            /\ trader' = [trader EXCEPT !.elapsed = @ + PositionSleep]
    /\ UNCHANGED <<engineVars, dataVars, controlVars, reqIdSeq, executions>>

\* trader.py:31 and 109-110: wait_for_position returns None, the message is
\* printed, the call returns
TraderAbort ==
    /\ trader.pc = "wait"
    /\ trader.elapsed >= PositionTimeout
    /\ trader' = [trader EXCEPT !.pc = "idle", !.result = "aborted"]
    /\ UNCHANGED <<engineVars, dataVars, controlVars, reqIdSeq, placed,
                   executions>>

\* the broker executes a market order it has received
BrokerExecutes(i) ==
    /\ i \in 1..Len(placed)
    /\ placed[i].orderType = "MKT"
    /\ ExecutionsOf(placed[i].orderId) = {}
    /\ executions' = Append(executions, [orderId |-> placed[i].orderId])
    /\ UNCHANGED <<engineVars, dataVars, controlVars, trader, reqIdSeq,
                   placed>>

\* no call of the Trader has been made
TraderIdle ==
    /\ trader = IdleTrade
    /\ reqIdSeq = 1
    /\ placed = <<>>
    /\ executions = <<>>

SideIdle == ControlIdle /\ TraderIdle

\* ------------------------------------------------------------ specification
\* IBClient.__init__ (ib_client.py:39-47) and the module globals, against a
\* flat account
EngineInit ==
    /\ orders = <<>>
    /\ positions = [s \in Symbols |-> 0]
    /\ fills = <<>>
    /\ tracked_order_ids = <<>>
    /\ tracked_orders = {}
    /\ active_order_status = <<>>
    /\ signal_file = <<>>
    /\ trade_file_open = <<>>
    /\ uuids = {}
    /\ watchdogs = {}
    /\ kill_switches = {}
    /\ pc = [p \in Threads |-> "idle"]
    /\ call = [p \in Threads |-> IdleCall]
    /\ nCalls = 0
    /\ isConnected = TRUE
    /\ reachable = TRUE
    /\ last_connect = Connect(TRUE)
    /\ unreadable = {}
    /\ tm = IdleOp
    /\ sheet = <<>>
    /\ order_log = <<>>
    /\ \E sc \in Scenarios :
          /\ side = sc.side
          /\ offsets = sc.offsets
          /\ market = [s \in Symbols |->
                          IF s = EURUSD THEN sc.EURUSD ELSE sc.USDJPY]

\* no merge is under way
DataIdle ==
    /\ csv_file = None
    /\ new_data = <<>>
    /\ df_combined = <<>>
    /\ df_recombined = <<>>
    /\ stage = "idle"
    /\ data_fetched = FALSE
    /\ enabled = FALSE

Init == EngineInit /\ DataIdle /\ SideIdle

Next ==
    \/ \E symbol \in Symbols :
          ExposureCheck(1, symbol, side)
    \/ SubmitEntry(1)
    \/ WaitPoll(1)
    \/ WaitTimeout(1)
    \/ PlaceLegs(1)
    \/ \E w \in watchdogs : WatchdogCheck(w)
    \/ \E k \in kill_switches : KillSwitchTask(k)
    \/ BrokerAck
    \/ \E i \in 1..Len(orders) : BrokerFill(i)

Spec == Init /\ [][Next]_vars

\* the same engine called from two worker threads side by side
NextConcurrent ==
    \/ \E p \in Threads, symbol \in Symbols :
          ExposureCheck(p, symbol, side)
    \/ \E p \in Threads : SubmitEntry(p)
    \/ \E p \in Threads : WaitPoll(p)
    \/ \E p \in Threads : WaitTimeout(p)
    \/ \E p \in Threads : PlaceLegs(p)
    \/ \E w \in watchdogs : WatchdogCheck(w)
    \/ \E k \in kill_switches : KillSwitchTask(k)
    \/ BrokerAck
    \/ \E i \in 1..Len(orders) : BrokerFill(i)

SpecConcurrent == Init /\ [][NextConcurrent]_vars

\* ------------------------------------------------ the engine under faults
\* the session to the gateway drops; the gateway may or may not accept a new
\* connection afterwards
SessionLost ==
    /\ isConnected
    /\ isConnected' = FALSE
    /\ reachable' \in BOOLEAN
    /\ UNCHANGED <<orders, positions, fills, tracked_order_ids, tracked_orders,
                   active_order_status, signal_file, trade_file_open, uuids,
                   watchdogs, kill_switches, pc, call, nCalls, side, offsets,
                   market, dataVars, sideVars, singleVars, last_connect, unreadable>>

\* the engine against one price scenario
FaultInit == EngineInit /\ DataIdle /\ SideIdle /\ market[EURUSD] = 1100000

NextFaults ==
    \/ Next
    \/ PersistRaises(1)
    \/ SessionLost
    \/ SubmitEntryRaises(1)
    \/ PlaceLegsRaises(1)

SpecFaults == FaultInit /\ [][NextFaults]_vars

\* the engine against one price scenario, the calling thread never halted:
\* a turn of the polling loop that can be taken is taken
SpecPolling ==
    /\ FaultInit
    /\ [][Next]_vars
    /\ WF_vars(WaitPoll(1))
    /\ WF_vars(WaitTimeout(1))

\* the engine against one price scenario and a broker that may execute a
\* market order in two parts
PartialNext ==
    \/ Next
    \/ \E i \in 1..Len(orders) : BrokerFillPartly(i)

SpecPartial == FaultInit /\ [][PartialNext]_vars

\* the calls and the broker's executions while the session comes and goes;
\* the deferred tasks, which send nothing, are left to run elsewhere
OutageNext ==
    \/ \E symbol \in Symbols :
          ExposureCheck(1, symbol, side)
    \/ SubmitEntry(1)
    \/ SubmitEntryRaises(1)
    \/ WaitPoll(1)
    \/ WaitTimeout(1)
    \/ PlaceLegs(1)
    \/ PlaceLegsRaises(1)
    \/ \E i \in 1..Len(orders) : BrokerFill(i)
    \/ SessionLost

SpecOutage == FaultInit /\ [][OutageNext]_vars

\* ------------------------------------------------- the single-leg operation
SingleLegInit ==
    EngineInit /\ DataIdle /\ SideIdle /\ market[EURUSD] = 1100000

SingleLegNext ==
    \/ \E action \in Actions, quantity \in 1..2,
          wait_seconds \in {1, WaitSeconds}, resolved \in BOOLEAN :
          PlaceOptionLimit(action, quantity, wait_seconds, resolved)
    \/ PollStatus
    \/ WaitOver
    \/ LimitFilled

SpecSingleLeg == SingleLegInit /\ [][SingleLegNext]_vars

\* ------------------------------------------------------ the control process
\* what config.json may hold when the control process starts
FlagMaps == UNION {[S -> BOOLEAN] : S \in SUBSET RequestSymbols}

PriorConfigs ==
    {[k \in {"symbols"} |-> m] : m \in FlagMaps} \cup
    {[k \in {"symbols", "symbolsStatus"} |->
         IF k = "symbols" THEN m[1] ELSE m[2]] : m \in FlagMaps \X FlagMaps}

ControlInit ==
    /\ EngineInit /\ market[EURUSD] = 1100000 /\ DataIdle /\ TraderIdle
    /\ app = "stopped"
    /\ config_json \in PriorConfigs
    /\ response = NoResponse

ControlNext ==
    \/ StartApp
    \/ StopApp
    \/ \E symbol \in RequestSymbols : AddSymbol(symbol)
    \/ \E symbol \in RequestSymbols : StopTrading(symbol)

SpecControl == ControlInit /\ [][ControlNext]_vars

\* ------------------------------------------------------------- the Trader
TraderInit ==
    EngineInit /\ market[EURUSD] = 1100000 /\ DataIdle /\ SideIdle

TraderNext ==
    \/ \E action \in Actions : TraderPlace(action)
    \/ TraderPoll
    \/ TraderAbort
    \/ \E i \in 1..Len(placed) : BrokerExecutes(i)

SpecTrader == TraderInit /\ [][TraderNext]_vars

\* ======================================================================
\* DataHandler: the bar history of one symbol (src/src/data_handler.py)
\* ======================================================================
\* A Date cell is <<kind, t>>: the text pandas reads from the csv file
\* ("str") or the datetime of a fetched bar ("datetime"), for the time t.
\* A row keeps the Date and the status column; Open..Volume ride along
\* untouched and are left out.
Text(t) == <<"str", t>>
Datetime(t) == <<"datetime", t>>
TimeOf(cell) == cell[2]

\* pd.read_csv(file_path): every Date comes back as text (no parse_dates);
\* the text "null" and the empty cell are NA markers and come back as NaN
ReadCsv(file) ==
    [i \in 1..Len(file) |->
        [Date |-> Text(file[i].Date),
         status |-> IF file[i].status \in {"null", ""} THEN "NaN"
                    ELSE file[i].status]]

\* data_handler.py:42-52: the stored frame, empty when there is no file
LoadHistoricalData(file) == IF file = None THEN <<>> ELSE ReadCsv(file)

\* data_handler.py:88-92: the frame of the fetched bars, status "null"
BarFrame(bars) ==
    [i \in 1..Len(bars) |-> [Date |-> Datetime(bars[i].date), status |-> "null"]]

\* df.tail(1)
TailOne(df) == IF df = <<>> THEN <<>> ELSE <<df[Len(df)]>>

\* df.drop_duplicates(subset=["Date"], keep='first'): a row goes when an
\* earlier row has an equal Date cell
RECURSIVE DropDuplicates(_)
DropDuplicates(df) ==
    IF df = <<>> THEN <<>>
    ELSE LET front == SubSeq(df, 1, Len(df) - 1)
             last == df[Len(df)]
         IN  IF \E i \in 1..Len(front) : front[i].Date = last.Date
             THEN DropDuplicates(front)
             ELSE Append(DropDuplicates(front), last)

\* data_handler.py:92-98: the combine step of update_historical_data
Combine(old_data, bars) ==
    LET df_new == BarFrame(bars)
        df_new_temp == TailOne(df_new)
    IN  IF old_data # <<>>
        THEN DropDuplicates(old_data \o df_new_temp)
        ELSE df_new

\* data_handler.py:76-101: update_historical_data, the merged frame
UpdateHistoricalData ==
    /\ stage = "fetched"
    /\ df_combined' = Combine(LoadHistoricalData(csv_file), new_data)
    /\ stage' = "merged"
    /\ UNCHANGED <<engineVars, sideVars, csv_file, new_data, df_recombined,
                   data_fetched, enabled>>

\* the combine step once more, on the merged frame and the same bars
CombineAgain ==
    /\ stage = "merged"
    /\ df_recombined' = Combine(df_combined, new_data)
    /\ stage' = "remerged"
    /\ UNCHANGED <<engineVars, sideVars, csv_file, new_data, df_combined,
                   data_fetched, enabled>>

\* the csv files a symbol can have: rows in time order, each with the status
\* text the driver or the initial load wrote
RECURSIVE SeqsUpTo(_, _)
SeqsUpTo(S, n) ==
    IF n = 0 THEN {<<>>}
    ELSE SeqsUpTo(S, n - 1) \cup
         {Append(q, x) : q \in {r \in SeqsUpTo(S, n - 1) : Len(r) = n - 1},
                         x \in S}

CsvRows == [Date : 1..MaxTime, status : {"null", "True"}]

CsvFiles ==
    {f \in SeqsUpTo(CsvRows, MaxStored) :
        \A i, j \in 1..Len(f) : i < j => f[i].Date < f[j].Date}

\* what the broker may answer: any bars, in any order
BarLists == SeqsUpTo([date : 1..MaxTime], MaxBars)

\* a stored history and an answer of the broker, before the merge
MergeInit ==
    /\ EngineInit
    /\ SideIdle
    /\ market[EURUSD] = 1100000
    /\ csv_file \in CsvFiles
    /\ new_data \in BarLists
    /\ df_combined = <<>>
    /\ df_recombined = <<>>
    /\ stage = "fetched"
    /\ data_fetched = TRUE
    /\ enabled = TRUE

MergeNext == UpdateHistoricalData \/ CombineAgain

SpecMerge == MergeInit /\ [][MergeNext]_vars

\* ======================================================================
\* The driver loop of main() for one symbol (src/main.py)
\* ======================================================================
\* data.to_csv(file_path, index=False): every cell is written as text, a
\* Date of either kind as the text of its time, NaN as the empty cell
ToCsv(df) ==
    [i \in 1..Len(df) |->
        [Date |-> TimeOf(df[i].Date),
         status |-> IF df[i].status = "NaN" THEN "" ELSE df[i].status]]

\* data_handler.py:54-62
SaveHistoricalData(df) == ToCsv(df)

\* data_handler.py:64-73: the file is written anew from the fetched bars
InitialUpdateHistoricalData(bars) == SaveHistoricalData(BarFrame(bars))

\* main.py:81: data_combined["status"] = status, on every row
SetStatus(df, status) ==
    [i \in 1..Len(df) |-> [df[i] EXCEPT !.status = status]]

\* str(True), as to_csv writes the flag
StatusText(flag) == IF flag THEN "True" ELSE "False"

\* main.py:74-82: merge, set the status column, save
MergeAndSave(file, bars, status) ==
    SaveHistoricalData(
        SetStatus(Combine(LoadHistoricalData(file), bars), StatusText(status)))

\* self.ib.reqHistoricalData(...): the bars of the window, oldest first
BarAnswers ==
    {b \in BarLists : \A i, j \in 1..Len(b) : i < j => b[i].date < b[j].date}

\* variant: the loop body never takes the continue
NeverSkipped(status) == FALSE

\* main.py:70-71: if status == False: continue
Skipped(status) == status = FALSE

\* main.py:59-82: the body of the loop for the symbol.  A symbol not yet in
\* data_fetched gets its history loaded anew; a symbol whose flag is off is
\* skipped; otherwise the latest bar is merged in and the history saved.
DriverIteration ==
    /\ stage = "idle"
    /\ csv_file = None \/ Len(csv_file) <= MaxStored
    /\ \E first \in BarAnswers, latest \in BarAnswers :
        LET loaded == IF data_fetched THEN csv_file
                      ELSE InitialUpdateHistoricalData(first)
        IN  csv_file' = IF Skipped(enabled) THEN loaded
                        ELSE MergeAndSave(loaded, latest, enabled)
    /\ data_fetched' = TRUE
    /\ UNCHANGED <<engineVars, sideVars, new_data, df_combined, df_recombined, stage,
                   enabled>>

\* the process is stopped and started again: main() begins with an empty
\* data_fetched list (main.py:38)
DriverRestart ==
    /\ stage = "idle"
    /\ data_fetched
    /\ data_fetched' = FALSE
    /\ UNCHANGED <<engineVars, sideVars, csv_file, new_data, df_combined, df_recombined,
                   stage, enabled>>

\* the control UI switches trading for the symbol on or off
\* (app.py:16-32 add_symbol, app.py:51-59 stop_trading)
SetTrading(flag) ==
    /\ stage = "idle"
    /\ enabled # flag
    /\ enabled' = flag
    /\ UNCHANGED <<engineVars, sideVars, csv_file, new_data, df_combined, df_recombined,
                   stage, data_fetched>>

DriverInit ==
    EngineInit /\ market[EURUSD] = 1100000 /\ DataIdle /\ SideIdle

DriverNext ==
    \/ DriverIteration
    \/ DriverRestart
    \/ \E flag \in BOOLEAN : SetTrading(flag)

SpecDriver == DriverInit /\ [][DriverNext]_vars

\* ======================================================================
\* Properties of the driver loop
\* ======================================================================
\* the loop body ran for a symbol whose history was already loaded
LaterCycle == DriverIteration /\ data_fetched /\ csv_file # None

\* C11 (as claimed): a later cycle's merge-and-save leaves the status of
\* every bar already in the persisted history as it was.
C11_StoredStatusKept ==
    [][LaterCycle =>
         \A i \in 1..Len(csv_file) :
             \E j \in 1..Len(csv_file') :
                 /\ csv_file'[j].Date = csv_file[i].Date
                 /\ csv_file'[j].status = csv_file[i].status]_vars

\* the timestamps of the persisted history
StoredTimes(file) ==
    IF file = None THEN {} ELSE {file[i].Date : i \in 1..Len(file)}

\* C12 (as claimed): whatever the driver does, restart included, every
\* timestamp once in the persisted history stays in it.
C12_BarsNeverDeleted ==
    [][StoredTimes(csv_file) \subseteq StoredTimes(csv_file')]_vars

\* ======================================================================
\* Properties of the merge
\* ======================================================================
Times(df) == [i \in 1..Len(df) |-> TimeOf(df[i].Date)]

StrictlyIncreasing(ts) == \A i, j \in 1..Len(ts) : i < j => ts[i] < ts[j]

\* C8 (as claimed): whatever is stored and whatever bars are fetched, the
\* merged series has strictly increasing, unique timestamps.
C8_MergedStrictlyIncreasing ==
    stage # "fetched" => StrictlyIncreasing(Times(df_combined))

\* C9 (as claimed): merging the same bars into the merged series once more
\* changes nothing.
C9_MergeIdempotent ==
    stage = "remerged" => df_recombined = df_combined

RowsAt(df, t) == {i \in 1..Len(df) : TimeOf(df[i].Date) = t}

\* C10 (as claimed): a stored bar with a status annotation, for whose
\* timestamp a raw bar is fetched, is after the merge the only bar of that
\* timestamp, annotation included.
C10_AnnotationSurvives ==
    stage # "fetched" =>
        \A i \in 1..Len(csv_file) :
            (/\ csv_file[i].status # "null"
             /\ \E b \in 1..Len(new_data) : new_data[b].date = csv_file[i].Date)
            =>
            /\ Cardinality(RowsAt(df_combined, csv_file[i].Date)) = 1
            /\ \A r \in RowsAt(df_combined, csv_file[i].Date) :
                   df_combined[r] = ReadCsv(csv_file)[i]

\* C26: with a stored series that is not empty, the merged series is the
\* stored series followed by the last fetched bar when that bar's timestamp
\* is not stored, and the stored series alone when it is (or when nothing
\* was fetched); no earlier fetched bar is merged.
C26_AtMostLastBarAdded ==
    (stage # "fetched" /\ csv_file # None /\ csv_file # <<>>) =>
        LET stored == [i \in 1..Len(csv_file) |-> csv_file[i].Date]
            last == new_data[Len(new_data)].date
        IN  Times(df_combined) =
                IF new_data = <<>> \/ (\E i \in 1..Len(stored) : stored[i] = last)
                THEN stored
                ELSE Append(stored, last)

\* C27: a cycle of the driver loop that finds the symbol's flag off leaves
\* the stored history as it is, unless the process sees the symbol for the
\* first time: then the history is what the initial load writes, and no
\* merge follows.
C27_DisabledSymbolSkipped ==
    [][~enabled =>
          \/ csv_file' = csv_file
          \/ /\ ~data_fetched
             /\ \E first \in BarAnswers :
                   csv_file' = InitialUpdateHistoricalData(first)]_vars

\* the flag is off, the symbol has had its initial load and no merge has
\* touched the stored history: the next cycle has nothing to do for it
C27_Witness ==
    /\ ~enabled
    /\ data_fetched
    /\ csv_file # None
    /\ csv_file # <<>>
    /\ \A i \in 1..Len(csv_file) : csv_file[i].status = "null"

\* ======================================================================
\* Properties of the order-execution engine
\* ======================================================================
LegIds(callNo) ==
    {i \in 1..Len(orders) :
        orders[i].callNo = callNo /\ orders[i].orderType \in {"LMT", "STP"}}

EntryIds(callNo) ==
    {i \in 1..Len(orders) :
        orders[i].callNo = callNo /\ orders[i].orderType = "MKT"}

OrderIds(callNo) == LegIds(callNo) \cup EntryIds(callNo)

InSeq(x, seq) == \E i \in 1..Len(seq) : seq[i] = x

\* the pair has an order pending at the broker
PendingOrderFor(pair) ==
    \E i \in 1..Len(orders) :
        /\ orders[i].status \in OpenStatuses
        /\ PairOf(orders[i].contract) = pair

\* C1: a place_bracket_order call made while the broker reports a non-zero
\* position for its pair ends at the exposure check: it returns "already
\* exposed" and leaves the broker's book, both tracked-order collections and
\* both files as they were.
C1_PositionBlocksOrder ==
    [][\A p \in Threads, symbol \in Symbols :
         (ExposureCheck(p, symbol, side) /\ positions[symbol] # 0) =>
            /\ pc'[p] = "idle"
            /\ call'[p].result = "exposed"
            /\ orders' = orders
            /\ tracked_order_ids' = tracked_order_ids
            /\ tracked_orders' = tracked_orders
            /\ signal_file' = signal_file
            /\ trade_file_open' = trade_file_open]_vars

\* a call for a pair with a position at the broker has returned "exposed"
C1_Witness ==
    \E p \in Threads :
        /\ pc[p] = "idle"
        /\ call[p].result = "exposed"
        /\ positions[call[p].symbol] # 0

\* C2 (as claimed): a place_bracket_order call made while the broker holds a
\* pending order for the same pair ends at the exposure check and submits
\* nothing.
C2_PendingOrderBlocksOrder ==
    [][\A p \in Threads, symbol \in Symbols :
         (ExposureCheck(p, symbol, side) /\ PendingOrderFor(symbol)) =>
            /\ pc'[p] = "idle"
            /\ call'[p].result = "exposed"]_vars

\* C3: a call whose entry was not reported executed within fill_timeout has
\* submitted no take-profit or stop-loss order, none of its order ids is in
\* tracked_order_ids or self.tracked_orders, and no watchdog or kill switch
\* was armed for it.
C3_NoFillNoBracket ==
    \A p \in Threads :
        call[p].result = "timeout" =>
            /\ LegIds(call[p].callNo) = {}
            /\ \A i \in OrderIds(call[p].callNo) :
                   /\ ~InSeq(i, tracked_order_ids)
                   /\ i \notin tracked_orders
                   /\ \A w \in watchdogs : w.order_id # i
                   /\ \A k \in kill_switches : k.tp # i /\ k.sl # i
            /\ Cardinality(EntryIds(call[p].callNo)) = 1

\* a call has timed out and its entry order is still at the broker
C3_Witness ==
    \E p \in Threads :
        /\ call[p].result = "timeout"
        /\ \E i \in EntryIds(call[p].callNo) : orders[i].status \in OpenStatuses

\* the execution price of the entry order of a call, from the broker's
\* execution reports
EntryFillPrice(callNo) ==
    LET e == CHOOSE i \in EntryIds(callNo) : TRUE
        f == CHOOSE j \in 1..Len(fills) : fills[j].orderId = e
    IN  fills[f].price

\* one pip of a pair in millionths: 0.01 for a yen pair, 0.0001 otherwise
Pip(pair) == IF pair = USDJPY THEN 10000 ELSE 100

\* the exact leg prices of the claim
ExactTp(o) ==
    IF o.action = "SELL"    \* the leg of a BUY entry
    THEN EntryFillPrice(o.callNo) + offsets[1] * Pip(PairOf(o.contract))
    ELSE EntryFillPrice(o.callNo) - offsets[1] * Pip(PairOf(o.contract))

ExactSl(o) ==
    IF o.action = "SELL"
    THEN EntryFillPrice(o.callNo) - offsets[2] * Pip(PairOf(o.contract))
    ELSE EntryFillPrice(o.callNo) + offsets[2] * Pip(PairOf(o.contract))

Legs == {i \in 1..Len(orders) : orders[i].orderType \in {"LMT", "STP"}}

\* C4 (as claimed): for every fill price and offsets the take-profit is
\* exactly fill +/- target_pips * pip_size and the stop-loss exactly
\* fill -/+ stop_loss_pips * pip_size.
C4_LegPricesExact ==
    \A i \in Legs :
        orders[i].price = IF orders[i].orderType = "LMT"
                          THEN ExactTp(orders[i]) ELSE ExactSl(orders[i])

\* x is y rounded to five decimals: a multiple of 0.00001 no further than
\* half of that from y
RoundedTo5(x, y) ==
    /\ x % 10 = 0
    /\ x - y <= 5
    /\ y - x <= 5

\* C4 (amended): each leg price is the exact value computed from the entry's
\* execution price, rounded to five decimals; the two examples of the
\* specification come out as stated.
C4_LegPricesRounded ==
    \A i \in Legs :
        /\ RoundedTo5(orders[i].price,
                      IF orders[i].orderType = "LMT"
                      THEN ExactTp(orders[i]) ELSE ExactSl(orders[i]))
        /\ (/\ offsets = <<5, 5>>
            /\ PairOf(orders[i].contract) = EURUSD
            /\ EntryFillPrice(orders[i].callNo) = 1100000
            /\ orders[i].action = "SELL") =>
                orders[i].price =
                    IF orders[i].orderType = "LMT" THEN 1100500 ELSE 1099500
        /\ (/\ offsets = <<5, 5>>
            /\ PairOf(orders[i].contract) = EURUSD
            /\ EntryFillPrice(orders[i].callNo) = 1200000
            /\ orders[i].action = "BUY") =>
                orders[i].price =
                    IF orders[i].orderType = "LMT" THEN 1199500 ELSE 1200500

\* a bracket was placed on an entry executed at a price with a sixth
\* decimal, and one on a yen pair
C4_Witness ==
    /\ \E i \in Legs : EntryFillPrice(orders[i].callNo) % 10 # 0
    /\ \E i \in Legs : PairOf(orders[i].contract) = USDJPY

\* the legs of a kill switch resolved as an OCA group should
ExclusivePattern(k) ==
    \/ orders[k.tp].status = "Filled" /\ orders[k.sl].status = "Cancelled"
    \/ orders[k.sl].status = "Filled" /\ orders[k.tp].status = "Cancelled"

\* C5 (as claimed): when the kill switch of a bracket runs and its legs are
\* not one Filled and the other Cancelled, both legs are cancelled and an
\* opposing market order for the filled quantity is submitted.
C5_KillSwitchFlattens ==
    [][\A k \in kill_switches :
         (/\ k.state = "sleeping"
          /\ [k EXCEPT !.state = "done"] \in kill_switches'
          /\ ~ExclusivePattern(k)) =>
            /\ orders'[k.tp].status \in {"PendingCancel", "Cancelled"}
            /\ orders'[k.sl].status \in {"PendingCancel", "Cancelled"}
            /\ \E i \in (Len(orders) + 1)..Len(orders') :
                   /\ orders'[i].orderType = "MKT"
                   /\ orders'[i].action = Opposite(k.action = "BUY")
                   /\ orders'[i].totalQuantity = k.quantity]_vars

\* C6 (as claimed): of two calls for the same pair running side by side,
\* neither of which could see an order of the other when it queried the
\* broker, at most one submits a market entry order.
C6_OneEntryPerInstrument ==
    \A p, q \in Threads :
        (/\ p # q
         /\ pc[p] # "idle" /\ pc[q] # "idle"
         /\ call[p].symbol = call[q].symbol
         /\ call[p].entry_order_id \notin call[q].trades
         /\ call[q].entry_order_id \notin call[p].trades) =>
            ~(call[p].entry_order_id # 0 /\ call[q].entry_order_id # 0)

\* the calls that placed their legs
Brackets == {orders[i].callNo : i \in Legs}

GroupOf(callNo) == orders[CHOOSE i \in LegIds(callNo) : TRUE].ocaGroup

\* exactly two legs, a LMT and a STP, opposite to the entry, one OCA group
BracketShape(callNo) ==
    /\ Cardinality(LegIds(callNo)) = 2
    /\ Cardinality(EntryIds(callNo)) = 1
    /\ \E tp, sl \in LegIds(callNo) :
        /\ orders[tp].orderType = "LMT"
        /\ orders[sl].orderType = "STP"
    /\ \A i \in LegIds(callNo), e \in EntryIds(callNo) :
        /\ orders[i].action # orders[e].action
        /\ orders[i].action \in Actions
        /\ orders[i].ocaGroup # None
        /\ orders[i].ocaGroup = GroupOf(callNo)

\* C7 (as claimed): every placed bracket is two legs, a LIMIT take-profit and
\* a STOP stop-loss, opposite to the entry and in one OCA group, and no two
\* brackets share a group id.
C7_FreshOcaGroup ==
    /\ \A c \in Brackets : BracketShape(c)
    /\ \A c, d \in Brackets : c # d => GroupOf(c) # GroupOf(d)
    /\ \A p \in Threads :
           call[p].result = "placed" => call[p].callNo \in Brackets

\* C7 (amended): every placed bracket is two legs, a LIMIT take-profit and a
\* STOP stop-loss, opposite to the entry and in one OCA group; the group id
\* is "OCA_" and the first 8 hex digits of a uuid4 drawn for that bracket,
\* so two brackets share it only when their uuids agree in those digits.
C7_OcaGroupFromUuidPrefix ==
    /\ \A c \in Brackets : BracketShape(c)
    /\ \A p \in Threads :
           call[p].result = "placed" => call[p].callNo \in Brackets
    /\ Cardinality(uuids) = Cardinality(Brackets)
    /\ \A c \in Brackets :
           \E u \in uuids :
               /\ u[2] = Cardinality({d \in Brackets : d <= c})
               /\ GroupOf(c) = <<"OCA_", u[1]>>
    /\ \A c, d \in Brackets :
           (c # d /\ GroupOf(c) = GroupOf(d)) =>
               \E u, v \in uuids : u # v /\ u[1] = v[1]

\* two brackets were placed, with uuids that differ in their first digits
C7_Witness ==
    \E c, d \in Brackets : c # d /\ GroupOf(c) # GroupOf(d)

\* ======================================================================
\* Properties of the engine under faults
\* ======================================================================
\* C13 (as claimed): a failure to read or write the signal file or the
\* open-position file does not keep a filled entry from getting its bracket:
\* every call that ended after its entry was reported executed has submitted
\* its take-profit and its stop-loss.
C13_AuditFailureKeepsBracket ==
    \A p \in Threads :
        call[p].result \in {"placed", "OSError"} =>
            Cardinality(LegIds(call[p].callNo)) = 2

\* C15 (as claimed): a call that finds the session down and reconnects
\* inside its exposure query does not go on to submit an entry order (the
\* code has no reconciliation step that could run in between).
C15_NoOrderOnFreshSession ==
    [][\A p \in Threads, symbol \in Symbols :
         (ExposureCheck(p, symbol, side) /\ ~isConnected /\ isConnected') =>
            pc'[p] # "submit"]_vars

\* C16 (as claimed): a connect() that fails has made more than one attempt
\* and fails with ConnectivityError.
C16_ConnectRetriesThenConnectivityError ==
    last_connect.raised # "" =>
        /\ last_connect.attempts > 1
        /\ last_connect.raised = "ConnectivityError"

\* ======================================================================
\* Tracking, persistence and the watchdogs
\* ======================================================================
\* C14 (as claimed): once the engine has fetched the broker's open orders
\* and positions (get_open_positions, the only place where it does), the
\* tracked ids are the ids open at the broker: a tracked id the broker no
\* longer lists is dropped, an open id not yet tracked is adopted.
C14_TrackedMatchesBroker ==
    [][\A p \in Threads, symbol \in Symbols :
         ExposureCheck(p, symbol, side) =>
            \A i \in 1..Len(orders) :
                InSeq(i, tracked_order_ids') <=> i \in ReqOpenOrders]_vars

\* the call of thread p returns from the branch where its entry was executed
Placed(p) ==
    /\ pc[p] = "filled"
    /\ pc'[p] = "idle"
    /\ call'[p].result = "placed"

\* file' is file with one record appended
AppendedTo(file, after, record) ==
    /\ Len(after) = Len(file) + 1
    /\ SubSeq(after, 1, Len(file)) = file
    /\ after[Len(after)] = record

\* C17: a call whose entry was executed appends one record to the signal
\* file (symbol, time, direction, price) and one to the open-position file
\* (entry time, symbol, order id, quantity, entry price), behind the records
\* already there; no other step of the engine changes either file.
C17_OneRecordPerFilledCall ==
    [][/\ \A p \in Threads :
            Placed(p) =>
              /\ AppendedTo(signal_file, signal_file',
                     [symbol |-> call[p].symbol,
                      datetime |-> call[p].execution.time,
                      direction |-> call[p].action,
                      price |-> call[p].execution.price])
              /\ AppendedTo(trade_file_open, trade_file_open',
                     [entryDateTime |-> call[p].execution.time,
                      symbolName |-> call[p].symbol,
                      orderId |-> call[p].entry_order_id,
                      qty |-> call[p].quantity,
                      entryPrice |-> call[p].execution.price])
       /\ (\A p \in Threads : ~Placed(p)) =>
              /\ signal_file' = signal_file
              /\ trade_file_open' = trade_file_open]_vars

\* two calls have appended their records, the second behind the first
C17_Witness ==
    /\ Len(signal_file) = 2
    /\ Len(trade_file_open) = 2
    /\ trade_file_open[1].orderId # trade_file_open[2].orderId

\* C18 (as claimed): when the watchdog of a leg runs and the broker still
\* holds the leg as PreSubmitted, the watchdog logs its warning.
C18_WatchdogWarns ==
    [][\A w \in watchdogs :
         (WatchdogCheck(w) /\ orders[w.order_id].status = "PreSubmitted") =>
            \E v \in watchdogs' : v.order_id = w.order_id /\ v.warned]_vars

TerminalStatuses == {"Filled", "Cancelled", "Inactive"}

\* an operation of the engine completes: a call returns
Completes(p) == pc'[p] = "idle" /\ call'[p] # call[p]

\* C19 (as claimed): when an operation of the engine completes, no order
\* that was terminal before is (still) in the tracked list.
C19_TerminalNotTracked ==
    [][\A p \in Threads :
         Completes(p) =>
            \A i \in 1..Len(orders) :
                orders[i].status \in TerminalStatuses =>
                    ~InSeq(i, tracked_order_ids')]_vars

\* ======================================================================
\* Properties of the single-leg operation
\* ======================================================================
OpOrders(opNo) == {i \in 1..Len(orders) : orders[i].callNo = opNo}

\* the operations that have ended
OpsEnded == IF tm.pc = "idle" THEN tm.opNo ELSE tm.opNo - 1

ConnectivityErrors == {"ConnectionError", "ConnectionRefusedError"}

\* thread p goes through a part of place_bracket_order that needs the
\* session (the exposure query, the entry order, the legs), it does not end
\* on a file error before it gets there, and the session is down when the
\* step is over
MeetsDeadSession(p) ==
    /\ pc[p] \in {"idle", "submit", "filled"}
    /\ call'[p] # call[p]
    /\ call'[p].result # "OSError"
    /\ ~isConnected'

\* C21: a step of place_bracket_order that meets a dead session, in the
\* exposure query or in an order submission, ends the call with the
\* connectivity error (it never reads as "not exposed" and goes on); no order
\* is sent once the session is down, and a call that ended with a
\* connectivity error sends no order afterwards.
C21_ConnectivityFailurePropagates ==
    [][\A p \in Threads :
          /\ MeetsDeadSession(p) =>
                /\ pc'[p] = "idle"
                /\ call'[p].result \in ConnectivityErrors
                /\ ~isConnected => Len(orders') = Len(orders)
          /\ (call[p].result \in ConnectivityErrors
              /\ call'[p].callNo = call[p].callNo) =>
                OrderIds(call[p].callNo)' = OrderIds(call[p].callNo)]_vars

\* a second call found the session down and the gateway refusing, after the
\* first call had sent its entry order, and has sent no order of its own
C21_Witness ==
    /\ call[1].callNo = 2
    /\ call[1].result = "ConnectionRefusedError"
    /\ Len(orders) > 0
    /\ OrderIds(2) = {}


\* ======================================================================
\* Properties of the control process
\* ======================================================================
\* the file switches trading on for the symbol
IsEnabled(config_data, symbol) ==
    /\ "symbols" \in DOMAIN config_data
    /\ symbol \in DOMAIN config_data["symbols"]
    /\ config_data["symbols"][symbol]

\* C22: when the control process starts, config.json holds every configured
\* symbol with its flag false, whatever it held before; a symbol's flag
\* goes from off to on only in a step that answers an add_symbol request for
\* that symbol with 200.
C22_ResetOnStart ==
    [][/\ (app = "stopped" /\ app' = "running") =>
            \A s \in FOREX_SYMBOLS :
                /\ s \in DOMAIN config_json'["symbols"]
                /\ ~config_json'["symbols"][s]
       /\ \A s \in RequestSymbols :
            (IsEnabled(config_json', s) /\ ~IsEnabled(config_json, s)) =>
                /\ app = "running"
                /\ response' = Answer("/add_symbol", s, 200)]_vars

\* the process runs and a configured symbol has been switched on by an
\* add_symbol request
C22_Witness ==
    /\ app = "running"
    /\ IsEnabled(config_json, "APPLE")
    /\ response = Answer("/add_symbol", "APPLE", 200)

\* a known symbol is stopped and then added again
StopThenAdd(s) ==
    /\ response = Answer("/stop_trading", s, 200)
    /\ AddSymbol(s)

\* C30: once the process has started, an add_symbol request for a symbol
\* that is not in config.json is answered with 200 and leaves the symbol in
\* the file with its flag true; add_symbol right after stop_trading for a
\* known symbol leaves it enabled; the file always has its "symbols" mapping.
C30_AddSymbolSucceeds ==
    [][/\ \A s \in RequestSymbols :
            /\ (AddSymbol(s) /\ s \notin DOMAIN config_json["symbols"]) =>
                  /\ response'.code = 200
                  /\ IsEnabled(config_json', s)
            /\ StopThenAdd(s) => IsEnabled(config_json', s)
       /\ app' = "running" => "symbols" \in DOMAIN config_json']_vars


\* ======================================================================
\* Properties of the wait for the entry's execution
\* ======================================================================
\* C23: wait_for_execution always comes to an end, and it ends in one of two
\* ways: it returns the first execution that carries the entry order id, or
\* it raises TimeoutError when the timeout has elapsed; place_bracket_order
\* is never left waiting for a fill.
C23_FillPollingTerminates ==
    /\ (pc[1] = "wait") ~> (pc[1] # "wait")
    /\ [][(pc[1] = "wait" /\ pc'[1] # "wait") =>
            \/ /\ pc'[1] = "filled"
               /\ \E i \in 1..Len(fills) :
                    /\ fills[i].orderId = call[1].entry_order_id
                    /\ \A j \in 1..(i - 1) :
                          fills[j].orderId # call[1].entry_order_id
                    /\ call'[1].execution = fills[i]
            \/ /\ pc'[1] = "idle"
               /\ call'[1].result = "timeout"
               /\ call[1].elapsed >= FillTimeout
               /\ call[1].elapsed < FillTimeout + PollSleep]_vars

\* one call has ended on the timeout and the next has its execution
C23_Witness ==
    /\ call[1].callNo = 2
    /\ pc[1] = "filled"
    /\ \E i \in 1..Len(orders) :
          orders[i].callNo = 1 /\ orders[i].orderType = "MKT"
    /\ LegIds(1) = {}


\* ======================================================================
\* Properties of the deferred tasks
\* ======================================================================
\* C24: when place_bracket_order returns from the branch that placed the
\* legs, the watchdog of either leg and the kill-switch task of the bracket
\* are armed and have not run yet: the call did not wait for them.
C24_TimersDoNotBlock ==
    [][\A p \in Threads :
          Placed(p) =>
             /\ LegIds(call[p].callNo)' # {}
             /\ \A i \in LegIds(call[p].callNo)' :
                   \E w \in watchdogs' : w.order_id = i /\ ~w.fired
             /\ \E k \in kill_switches' :
                   /\ {k.tp, k.sl} = LegIds(call[p].callNo)'
                   /\ k.state = "sleeping"]_vars

\* the next call is under way while a watchdog and the kill-switch task of
\* the bracket before it are still pending
C24_Witness ==
    /\ call[1].callNo = 2
    /\ pc[1] # "idle"
    /\ \E w \in watchdogs : w.order_id \in LegIds(1) /\ ~w.fired
    /\ \E k \in kill_switches : k.tp \in LegIds(1) /\ k.state = "sleeping"


\* ======================================================================
\* Properties of Trader.place_bracket_order
\* ======================================================================
TraderLegs(callNo) ==
    {i \in 1..Len(placed) :
        placed[i].callNo = callNo /\ placed[i].orderType \in {"LMT", "STP"}}

\* C25: every take-profit or stop-loss order the Trader sends is sent after
\* the call has seen the execution of its entry order, and a call that gave
\* up waiting has sent no take-profit or stop-loss order.
C25_NoLegBeforeExecution ==
    /\ \A i \in 1..Len(placed) :
          placed[i].orderType \in {"LMT", "STP"} => placed[i].observed
    /\ trader.result = "aborted" => TraderLegs(trader.callNo) = {}

\* C28: the entry, take-profit and stop-loss ids of one call differ from
\* each other, and no order id is used by two calls.
C28_OrderIdsUnique ==
    /\ Cardinality({trader.parent_order_id, trader.take_profit_order_id,
                    trader.stop_order_id}) = 3 \/ trader.callNo = 0
    /\ \A i, j \in 1..Len(placed) :
          placed[i].callNo # placed[j].callNo =>
              placed[i].orderId # placed[j].orderId


\* ======================================================================
\* Properties of the legs' quantity
\* ======================================================================
\* C29: when place_bracket_order places the legs, both legs have the same
\* quantity, and it is the quantity of the entry order executed by then,
\* over all its executions.
C29_LegsCoverFilledQuantity ==
    [][\A p \in Threads :
          Placed(p) =>
             \A i \in LegIds(call[p].callNo)' :
                orders'[i].totalQuantity =
                    FilledQuantity(call[p].entry_order_id)]_vars

====
